---- MODULE Spec2Model ----
(***************************************************************************)
(* Model of backend/api/endpoints/gallery.py: the gallery REST handlers    *)
(* over the blob store (AzureBlobStorageService) and the metadata store    *)
(* (CosmosDBService).  One action per handler; an action is the whole      *)
(* request, dependency resolution included.  Strings are sequences of      *)
(* one-character strings so that lower(), endswith(), split() and strip()  *)
(* are computed as Python computes them.                                   *)
(***************************************************************************)
EXTENDS Integers, Sequences, FiniteSets, TLC

VARIABLES
    settings,   \* backend.core.config.settings: the Cosmos DB configuration
    blobs,      \* blob store: set of [container, blob_name]
    records,    \* metadata store: sequence of asset records, oldest first
    nextId,     \* number of blob names the blob store has generated so far
    req,        \* the request handled last
    resp,       \* the response to it
    calls       \* the store calls the handler made for it, in order

vars == <<settings, blobs, records, nextId, req, resp, calls>>

\* Bounds of the model.
MaxUploads == 2
MaxValidatedUploads == 1

(***************************************************************************)
(* Optional values (Python None).                                          *)
(***************************************************************************)
None == [present |-> FALSE, val |-> <<>>]
Some(x) == [present |-> TRUE, val |-> x]

(***************************************************************************)
(* Strings.                                                                *)
(***************************************************************************)
UpperToLower ==
    [A |-> "a", B |-> "b", C |-> "c", D |-> "d", E |-> "e", F |-> "f",
     G |-> "g", H |-> "h", I |-> "i", J |-> "j", K |-> "k", L |-> "l",
     M |-> "m", N |-> "n", O |-> "o", P |-> "p", Q |-> "q", R |-> "r",
     S |-> "s", T |-> "t", U |-> "u", V |-> "v", W |-> "w", X |-> "x",
     Y |-> "y", Z |-> "z"]

\* str.lower()
Lower(s) ==
    [i \in 1..Len(s) |->
        IF s[i] \in DOMAIN UpperToLower THEN UpperToLower[s[i]] ELSE s[i]]

\* str.endswith(suffix)
EndsWith(s, suffix) ==
    /\ Len(s) >= Len(suffix)
    /\ SubSeq(s, Len(s) - Len(suffix) + 1, Len(s)) = suffix

Whitespace == {" ", "\t", "\n"}

RECURSIVE LStrip(_)
LStrip(s) ==
    IF s # <<>> /\ Head(s) \in Whitespace THEN LStrip(Tail(s)) ELSE s

RECURSIVE RStrip(_)
RStrip(s) ==
    IF s # <<>> /\ s[Len(s)] \in Whitespace
    THEN RStrip(SubSeq(s, 1, Len(s) - 1))
    ELSE s

\* str.strip()
Strip(s) == RStrip(LStrip(s))

\* str.split(sep) for a one-character separator: always at least one piece.
RECURSIVE SplitFrom(_, _, _)
SplitFrom(s, sep, cur) ==
    IF s = <<>> THEN <<cur>>
    ELSE IF Head(s) = sep THEN <<cur>> \o SplitFrom(Tail(s), sep, <<>>)
    ELSE SplitFrom(Tail(s), sep, Append(cur, Head(s)))

Split(s, sep) == SplitFrom(s, sep, <<>>)

\* [f(x) for x in seq if p(x)] with f = strip and p = the stripped text is non-empty
RECURSIVE StripNonEmpty(_)
StripNonEmpty(pieces) ==
    IF pieces = <<>> THEN <<>>
    ELSE IF Strip(Head(pieces)) # <<>>
         THEN <<Strip(Head(pieces))>> \o StripNonEmpty(Tail(pieces))
         ELSE StripNonEmpty(Tail(pieces))

(***************************************************************************)
(* JSON.  The text of the `metadata` form field is a sequence of lexical   *)
(* tokens; json.loads is a recursive-descent parse of it.  Parsed values   *)
(* are tagged: [kind, val].  An object is a sequence of <<key, value>>     *)
(* pairs with distinct keys, in insertion order, as a Python dict is.      *)
(***************************************************************************)
JStrings == {"'k'", "'prompt'", "'v'", "''"}
JNumbers == {"0", "1"}

\* the text of a string literal
StrText(tok) ==
    CASE tok = "'k'" -> <<"k">>
      [] tok = "'prompt'" -> <<"prompt">>
      [] tok = "'v'" -> <<"v">>
      [] OTHER -> <<>>

JStr(text) == [kind |-> "str", val |-> text]
JNum(tok) == [kind |-> "num", val |-> tok]
JBool(tok) == [kind |-> "bool", val |-> tok]
JNull == [kind |-> "null", val |-> "null"]
JArr(elems) == [kind |-> "arr", val |-> elems]
JObj(pairs) == [kind |-> "obj", val |-> pairs]

ParseFail == [ok |-> FALSE, val |-> JNull, rest |-> <<>>]
ParseOk(v, rest) == [ok |-> TRUE, val |-> v, rest |-> rest]

\* dict[key] = value: replaces in place when the key exists, else appends
DictSet(pairs, key, value) ==
    IF \E i \in 1..Len(pairs) : pairs[i][1] = key
    THEN [i \in 1..Len(pairs) |->
            IF pairs[i][1] = key THEN <<key, value>> ELSE pairs[i]]
    ELSE Append(pairs, <<key, value>>)

\* del dict[key]
RECURSIVE DictDel(_, _)
DictDel(pairs, key) ==
    IF pairs = <<>> THEN <<>>
    ELSE IF Head(pairs)[1] = key THEN DictDel(Tail(pairs), key)
    ELSE <<Head(pairs)>> \o DictDel(Tail(pairs), key)

RECURSIVE ParseValue(_), ParseElements(_, _), ParseMembers(_, _)
ParseValue(ts) ==
    IF ts = <<>> THEN ParseFail
    ELSE LET h == Head(ts)
             r == Tail(ts)
         IN CASE h \in JStrings -> ParseOk(JStr(StrText(h)), r)
              [] h \in JNumbers -> ParseOk(JNum(h), r)
              [] h \in {"true", "false"} -> ParseOk(JBool(h), r)
              [] h = "null" -> ParseOk(JNull, r)
              [] h = "[" ->
                    IF r # <<>> /\ Head(r) = "]"
                    THEN ParseOk(JArr(<<>>), Tail(r))
                    ELSE ParseElements(r, <<>>)
              [] h = "{" ->
                    IF r # <<>> /\ Head(r) = "}"
                    THEN ParseOk(JObj(<<>>), Tail(r))
                    ELSE ParseMembers(r, <<>>)
              [] OTHER -> ParseFail

ParseElements(ts, acc) ==
    LET p == ParseValue(ts)
    IN IF ~p.ok \/ p.rest = <<>> THEN ParseFail
       ELSE IF Head(p.rest) = ","
            THEN ParseElements(Tail(p.rest), Append(acc, p.val))
       ELSE IF Head(p.rest) = "]"
            THEN ParseOk(JArr(Append(acc, p.val)), Tail(p.rest))
       ELSE ParseFail

ParseMembers(ts, acc) ==
    IF Len(ts) < 3 \/ Head(ts) \notin JStrings \/ ts[2] # ":" THEN ParseFail
    ELSE LET key == StrText(Head(ts))
             p == ParseValue(Tail(Tail(ts)))
         IN IF ~p.ok \/ p.rest = <<>> THEN ParseFail
            ELSE IF Head(p.rest) = ","
                 THEN ParseMembers(Tail(p.rest), DictSet(acc, key, p.val))
            ELSE IF Head(p.rest) = "}"
                 THEN ParseOk(JObj(DictSet(acc, key, p.val)), Tail(p.rest))
            ELSE ParseFail

\* json.loads(text): ok = FALSE stands for json.JSONDecodeError
JsonLoads(text) ==
    LET p == ParseValue(text)
    IN IF p.ok /\ p.rest = <<>>
       THEN [ok |-> TRUE, val |-> p.val]
       ELSE [ok |-> FALSE, val |-> JNull]

\* the string literal token of a text
StrToken(text) ==
    CASE text = <<"k">> -> "'k'"
      [] text = <<"prompt">> -> "'prompt'"
      [] text = <<"v">> -> "'v'"
      [] OTHER -> "''"

\* json.dumps(value): the text, as tokens
RECURSIVE Dumps(_), DumpsElements(_), DumpsMembers(_)
Dumps(v) ==
    CASE v.kind = "str" -> <<StrToken(v.val)>>
      [] v.kind \in {"num", "bool", "null"} -> <<v.val>>
      [] v.kind = "arr" -> <<"[">> \o DumpsElements(v.val) \o <<"]">>
      [] v.kind = "obj" -> <<"{">> \o DumpsMembers(v.val) \o <<"}">>

DumpsElements(elems) ==
    IF elems = <<>> THEN <<>>
    ELSE Dumps(Head(elems))
         \o (IF Len(elems) > 1 THEN <<",">> ELSE <<>>)
         \o DumpsElements(Tail(elems))

DumpsMembers(pairs) ==
    IF pairs = <<>> THEN <<>>
    ELSE <<StrToken(Head(pairs)[1]), ":">> \o Dumps(Head(pairs)[2])
         \o (IF Len(pairs) > 1 THEN <<",">> ELSE <<>>)
         \o DumpsMembers(Tail(pairs))

\* bool(value)
Truthy(v) ==
    CASE v.kind = "null" -> FALSE
      [] v.kind = "bool" -> v.val = "true"
      [] v.kind = "num" -> v.val # "0"
      [] v.kind \in {"str", "arr", "obj"} -> v.val # <<>>

(***************************************************************************)
(* Requests' input domains.                                                *)
(***************************************************************************)
MediaTypes == {"image", "video"}

Filenames ==
    { <<"a", ".", "p", "n", "g">>,
      <<"A", ".", "P", "N", "G">>,
      <<"a", ".", "m", "p", "4">>,
      <<"a", ".", "t", "x", "t">>,
      <<"p", "n", "g">> }

\* the `metadata` form field: absent, empty, or a text
MetadataForms ==
    { None,
      Some(<<>>),
      Some(<<"{", "'k'", ":", "'v'", "}">>),
      Some(<<"{", "'k'", ":", "[", "1", "]", ",", "'prompt'", ":", "null", "}">>),
      Some(<<"{", "'k'", ":", "1", "}">>),
      Some(<<"[", "1", "]">>),
      Some(<<"{", "}">>),
      Some(<<"0">>),
      Some(<<"{", "'k'", ":">>) }

FolderForms == { None, Some(<<"f">>) }

(***************************************************************************)
(* Exceptions.  A handler body either returns or raises; http = TRUE is    *)
(* fastapi.HTTPException(status_code = status), http = FALSE any other     *)
(* Exception.                                                              *)
(***************************************************************************)
HTTPException(status) == [raised |-> TRUE, http |-> TRUE, status |-> status]
OtherException == [raised |-> TRUE, http |-> FALSE, status |-> 0]
NoException == [raised |-> FALSE, http |-> FALSE, status |-> 0]

(***************************************************************************)
(* get_cosmos_service: the dependency every handler but get_asset_content  *)
(* and get_sas_tokens resolves before its body runs.                       *)
(***************************************************************************)
GetCosmosService(s, ctorRaises) ==
    IF s.endpoint
    THEN IF s.key \/ s.managed
         THEN IF ctorRaises THEN HTTPException(503) ELSE NoException
         ELSE HTTPException(503)
    ELSE HTTPException(503)

(***************************************************************************)
(* Container binding (settings.AZURE_BLOB_IMAGE_CONTAINER / _VIDEO_).      *)
(***************************************************************************)
ImageContainer == "images"
VideoContainer == "videos"

ContainerOf(media_type) ==
    IF media_type = "image" THEN ImageContainer ELSE VideoContainer

(***************************************************************************)
(* upload_asset: validation of the file name and of the metadata field.    *)
(***************************************************************************)
ImageTypes ==
    << <<".", "j", "p", "g">>, <<".", "j", "p", "e", "g">>,
       <<".", "p", "n", "g">>, <<".", "g", "i", "f">>,
       <<".", "w", "e", "b", "p">>, <<".", "s", "v", "g">>,
       <<".", "b", "m", "p">> >>

VideoTypes ==
    << <<".", "m", "p", "4">>, <<".", "m", "o", "v">>,
       <<".", "a", "v", "i">>, <<".", "w", "m", "v">>,
       <<".", "w", "e", "b", "m">>, <<".", "m", "k", "v">> >>

ValidTypes(media_type) ==
    IF media_type = "image" THEN ImageTypes ELSE VideoTypes

\* any(filename.endswith(ext) for ext in valid_types), filename lower-cased
HasValidType(media_type, filename) ==
    \E i \in 1..Len(ValidTypes(media_type)) :
        EndsWith(Lower(filename), ValidTypes(media_type)[i])

\* the loop over list(metadata_dict.items()): None values are deleted,
\* dict and list values are replaced by their json.dumps text
RECURSIVE CleanItems(_, _)
CleanItems(items, dict) ==
    IF items = <<>> THEN dict
    ELSE LET key == Head(items)[1]
             value == Head(items)[2]
         IN CleanItems(Tail(items),
                IF value.kind = "null" THEN DictDel(dict, key)
                ELSE IF value.kind \in {"obj", "arr"}
                     THEN DictSet(dict, key, JStr(Dumps(value)))
                     ELSE dict)

\* "Parse metadata if provided": exc is what the block raises, dict is
\* metadata_dict after it (None, or the parsed value)
ParseMetadata(metadata) ==
    IF ~metadata.present \/ metadata.val = <<>>
    THEN [exc |-> NoException, dict |-> None]
    ELSE LET loaded == JsonLoads(metadata.val)
         IN IF ~loaded.ok
            THEN [exc |-> HTTPException(400), dict |-> None]
            ELSE IF ~Truthy(loaded.val)
            THEN [exc |-> NoException,
                  dict |-> IF loaded.val.kind = "null" THEN None
                           ELSE Some(loaded.val)]
            ELSE IF loaded.val.kind # "obj"
            THEN [exc |-> OtherException, dict |-> None]
            ELSE [exc |-> NoException,
                  dict |-> Some(JObj(CleanItems(loaded.val.val, loaded.val.val)))]

\* the handler's `except Exception as e: raise HTTPException(500)`, which
\* also catches the HTTPExceptions raised inside the try block
UploadExcept(exc) == 500

(***************************************************************************)
(* The blob store (AzureBlobStorageService) and the metadata store         *)
(* (CosmosDBService).                                                      *)
(***************************************************************************)
Digits == <<"0", "1", "2", "3", "4", "5", "6", "7", "8", "9">>

\* the text after the last "." of a file name, with the dot ("" if none)
RECURSIVE Extension(_)
Extension(filename) ==
    IF filename = <<>> THEN <<>>
    ELSE IF \E i \in 2..Len(filename) : filename[i] = "."
         THEN Extension(Tail(filename))
    ELSE IF Head(filename) = "." THEN filename
    ELSE <<>>

FolderText(folder_path) ==
    IF folder_path.present THEN folder_path.val ELSE <<>>

\* upload(content, mediaType, metadata?, folderPath?): a fresh blob name
\* under the folder, in the container bound to the media type
BlobUploadResult(n, filename, media_type, folder_path) ==
    [blob_name |->
        (IF FolderText(folder_path) = <<>> THEN <<>>
         ELSE FolderText(folder_path) \o <<"/">>)
        \o <<Digits[n + 2]>> \o Extension(Lower(filename)),
     container |-> ContainerOf(media_type),
     original_filename |-> filename,
     folder_path |-> FolderText(folder_path)]

BlobOf(result, metadata_dict) ==
    [container |-> result.container, blob_name |-> result.blob_name,
     metadata |-> metadata_dict]

BlobExists(store, blob_name, container) ==
    \E i \in 1..Len(store) :
        store[i].blob_name = blob_name /\ store[i].container = container

RECURSIVE BlobRemove(_, _, _)
BlobRemove(store, blob_name, container) ==
    IF store = <<>> THEN <<>>
    ELSE IF Head(store).blob_name = blob_name /\ Head(store).container = container
         THEN BlobRemove(Tail(store), blob_name, container)
    ELSE <<Head(store)>> \o BlobRemove(Tail(store), blob_name, container)

\* blob_name.split(".")[0].split("/")[-1]
AssetId(blob_name) ==
    LET stem == Split(blob_name, ".")[1]
        parts == Split(stem, "/")
    IN parts[Len(parts)]

\* the record create_asset_metadata stores for an upload
RecordOf(result, media_type, metadata_dict, now) ==
    [id |-> AssetId(result.blob_name),
     media_type |-> media_type,
     blob_name |-> result.blob_name,
     container |-> result.container,
     folder_path |-> result.folder_path,
     created_at |-> now,
     tags |-> <<>>,
     fields |-> <<>>,
     custom_metadata |-> IF metadata_dict.present THEN metadata_dict.val.val
                         ELSE <<>>]

RecordExists(store, id, media_type) ==
    \E i \in 1..Len(store) : store[i].id = id /\ store[i].media_type = media_type

RECURSIVE CosmosRemove(_, _, _)
CosmosRemove(store, id, media_type) ==
    IF store = <<>> THEN <<>>
    ELSE IF Head(store).id = id /\ Head(store).media_type = media_type
         THEN CosmosRemove(Tail(store), id, media_type)
    ELSE <<Head(store)>> \o CosmosRemove(Tail(store), id, media_type)

\* create(record): create by identifier, replacing a record of the same id
CosmosCreate(store, record) ==
    Append(CosmosRemove(store, record.id, record.media_type), record)

Call(op, args, raised, ret) ==
    [op |-> op, args |-> args, raised |-> raised, ret |-> ret]

Response(endpoint, status, body) ==
    [endpoint |-> endpoint, status |-> status, body |-> body]

ErrorBody == [success |-> FALSE]

(***************************************************************************)
(* POST /upload                                                            *)
(***************************************************************************)
\* a faulty rejection: the file is validated after it was handed to the blob store
UploadRejectedAfterUpload(status) ==
    /\ resp' = Response("upload", status, ErrorBody)
    /\ calls' = <<Call("upload_asset", None, FALSE, TRUE)>>
    /\ blobs' = Append(blobs,
                    BlobOf(BlobUploadResult(nextId, req'.filename, req'.media_type,
                                            req'.folder_path), None))
    /\ nextId' = nextId + 1
    /\ UNCHANGED records

\* a raise before the store calls: the request is answered without a call to
\* either store
UploadRejected(status) ==
    /\ resp' = Response("upload", status, ErrorBody)
    /\ calls' = <<>>
    /\ UNCHANGED <<blobs, records, nextId>>

\* a faulty creation: the failure of create_asset_metadata leaves the try block
UploadCreateMetadataFatal(result, media_type, metadata_dict, cosmosRaises) ==
    IF cosmosRaises
    THEN [records |-> records,
          call |-> Call("create_asset_metadata", metadata_dict, TRUE, FALSE),
          exc |-> OtherException]
    ELSE [records |-> CosmosCreate(records,
                          RecordOf(result, media_type, metadata_dict, nextId)),
          call |-> Call("create_asset_metadata", metadata_dict, FALSE, TRUE),
          exc |-> NoException]

\* the metadata record is created after the blob upload succeeded; a failure
\* of the creation is logged and swallowed
UploadCreateMetadata(result, media_type, metadata_dict, cosmosRaises) ==
    IF metadata_dict.present /\ metadata_dict.val.kind # "obj"
    THEN \* custom_metadata is declared a mapping: the request model rejects it
         [records |-> records,
          call |-> Call("AssetMetadataCreateRequest", metadata_dict, TRUE, FALSE),
          exc |-> NoException]
    ELSE IF cosmosRaises
    THEN [records |-> records,
          call |-> Call("create_asset_metadata", metadata_dict, TRUE, FALSE),
          exc |-> NoException]
    ELSE [records |-> CosmosCreate(records,
                          RecordOf(result, media_type, metadata_dict, nextId)),
          call |-> Call("create_asset_metadata", metadata_dict, FALSE, TRUE),
          exc |-> NoException]

\* the handler, for a request drawn from the given input domains; `cap`
\* bounds the number of blob names the blob store generates
UploadAssetOf(filenames, metadatas, folders, cap) ==
    \E filename \in filenames, media_type \in MediaTypes,
       metadata \in metadatas, folder_path \in folders, ctorRaises \in BOOLEAN :
        LET dep == GetCosmosService(settings, ctorRaises)
            parsed == ParseMetadata(metadata)
            result == BlobUploadResult(nextId, filename, media_type, folder_path)
        IN
        /\ req' = [endpoint |-> "upload", filename |-> filename,
                   media_type |-> media_type, metadata |-> metadata,
                   folder_path |-> folder_path]
        /\ UNCHANGED settings
        /\ IF dep.raised
           THEN /\ resp' = Response("upload", dep.status, ErrorBody)
                /\ calls' = <<>>
                /\ UNCHANGED <<blobs, records, nextId>>
           ELSE IF ~HasValidType(media_type, filename)
           THEN UploadRejected(UploadExcept(HTTPException(400)))
           ELSE IF parsed.exc.raised
           THEN UploadRejected(UploadExcept(parsed.exc))
           ELSE \/ /\ resp' = Response("upload", UploadExcept(OtherException),
                                       ErrorBody)
                   /\ calls' = <<Call("upload_asset", parsed.dict, TRUE, FALSE)>>
                   /\ UNCHANGED <<blobs, records, nextId>>
                \/ \E cosmosRaises \in BOOLEAN :
                    LET created == UploadCreateMetadata(result, media_type,
                                       parsed.dict, cosmosRaises)
                    IN
                    /\ nextId < cap
                    /\ blobs' = Append(blobs, BlobOf(result, parsed.dict))
                    /\ nextId' = nextId + 1
                    /\ records' = created.records
                    /\ calls' = <<Call("upload_asset", parsed.dict, FALSE, TRUE),
                                  created.call>>
                    /\ resp' = IF created.exc.raised
                               THEN Response("upload", UploadExcept(created.exc),
                                             ErrorBody)
                               ELSE Response("upload", 200,
                                        [success |-> TRUE, result |-> result])

(***************************************************************************)
(* DELETE /delete                                                          *)
(***************************************************************************)
\* a faulty handler: the `except HTTPException: raise` clause is missing
DeleteExceptAny(exc) == 500

\* `except HTTPException: raise` before `except Exception`: an HTTPException
\* keeps its status, anything else becomes 500
DeleteExcept(exc) == IF exc.http THEN exc.status ELSE 500

\* "Determine container name": container overrides media_type
DeleteContainerName(media_type, container) ==
    IF container.present /\ container.val # ""
    THEN [exc |-> NoException, name |-> container.val]
    ELSE IF ~media_type.present
    THEN [exc |-> HTTPException(400), name |-> ""]
    ELSE [exc |-> NoException, name |-> ContainerOf(media_type.val)]

DeleteMediaTypeStr(container_name) ==
    IF container_name = ImageContainer THEN "image" ELSE "video"

\* "Delete from Cosmos DB first": a failure is logged and swallowed
DeleteMetadata(asset_id, media_type_str, cosmosRaises) ==
    IF cosmosRaises \/ ~RecordExists(records, asset_id, media_type_str)
    THEN [records |-> records,
          call |-> Call("delete_asset_metadata", asset_id, TRUE, FALSE),
          exc |-> NoException]
    ELSE [records |-> CosmosRemove(records, asset_id, media_type_str),
          call |-> Call("delete_asset_metadata", asset_id, FALSE, TRUE),
          exc |-> NoException]

\* the response once the blob store's delete has returned `success`
DeleteOutcome(success, blob_name, container_name) ==
    IF ~success
    THEN Response("delete", DeleteExcept(HTTPException(404)), ErrorBody)
    ELSE Response("delete", 200,
             [success |-> TRUE, blob_name |-> blob_name,
              container |-> container_name])

\* the blob names a client may ask for: those it has seen, those names
\* without their folder, and one that never existed
BareName(blob_name) == AssetId(blob_name) \o Extension(blob_name)

KnownNames ==
    {blobs[i].blob_name : i \in 1..Len(blobs)}
    \cup {records[i].blob_name : i \in 1..Len(records)}

BlobNames ==
    KnownNames
    \cup {BareName(n) : n \in KnownNames}
    \cup {<<"9", ".", "p", "n", "g">>}

DeleteAssetOf(containers) ==
    \E blob_name \in BlobNames, media_type \in {None} \cup {Some(m) : m \in MediaTypes},
       container \in containers, ctorRaises \in BOOLEAN :
        LET dep == GetCosmosService(settings, ctorRaises)
            named == DeleteContainerName(media_type, container)
            asset_id == AssetId(blob_name)
            media_type_str == DeleteMediaTypeStr(named.name)
        IN
        /\ req' = [endpoint |-> "delete", blob_name |-> blob_name,
                   media_type |-> media_type, container |-> container]
        /\ UNCHANGED <<settings, nextId>>
        /\ IF dep.raised
           THEN /\ resp' = Response("delete", dep.status, ErrorBody)
                /\ calls' = <<>>
                /\ UNCHANGED <<blobs, records>>
           ELSE IF named.exc.raised
           THEN /\ resp' = Response("delete", DeleteExcept(named.exc), ErrorBody)
                /\ calls' = <<>>
                /\ UNCHANGED <<blobs, records>>
           ELSE \E cosmosRaises \in BOOLEAN :
                LET deleted == DeleteMetadata(asset_id, media_type_str, cosmosRaises)
                    exists == BlobExists(blobs, blob_name, named.name)
                IN
                /\ records' = deleted.records
                /\ IF deleted.exc.raised
                   THEN /\ resp' = Response("delete", DeleteExcept(deleted.exc),
                                            ErrorBody)
                        /\ calls' = <<deleted.call>>
                        /\ UNCHANGED blobs
                   ELSE \/ /\ resp' = Response("delete",
                                          DeleteExcept(OtherException), ErrorBody)
                           /\ calls' = <<deleted.call,
                                         Call("delete_asset", blob_name, TRUE, FALSE)>>
                           /\ UNCHANGED blobs
                        \/ /\ blobs' = BlobRemove(blobs, blob_name, named.name)
                           /\ calls' = <<deleted.call,
                                         Call("delete_asset", blob_name, FALSE, exists)>>
                           /\ resp' = DeleteOutcome(exists, blob_name, named.name)

(***************************************************************************)
(* GET /asset/{media_type}/{blob_name}                                     *)
(***************************************************************************)
\* the handler's only clause is `except Exception`, which also catches the
\* HTTPException(404) raised inside the try block
AssetExcept(exc) == 500

\* blob_name.split("/")[-1] if "/" in blob_name else blob_name
AssetFilename(blob_name) ==
    IF \E i \in 1..Len(blob_name) : blob_name[i] = "/"
    THEN Split(blob_name, "/")[Len(Split(blob_name, "/"))]
    ELSE blob_name

\* the response once get_asset_content has returned (found = content is not empty)
AssetOutcome(found, blob_name) ==
    IF ~found
    THEN Response("asset", AssetExcept(HTTPException(404)), ErrorBody)
    ELSE Response("asset", 200,
             [success |-> TRUE, filename |-> AssetFilename(blob_name)])

GetAssetContent ==
    \E blob_name \in BlobNames, media_type \in MediaTypes :
        LET container_name == ContainerOf(media_type)
            found == BlobExists(blobs, blob_name, container_name)
        IN
        /\ req' = [endpoint |-> "asset", blob_name |-> blob_name,
                   media_type |-> media_type]
        /\ UNCHANGED <<settings, blobs, records, nextId>>
        /\ \/ /\ resp' = Response("asset", AssetExcept(OtherException), ErrorBody)
              /\ calls' = <<Call("get_asset_content", blob_name, TRUE, FALSE)>>
           \/ /\ resp' = AssetOutcome(found, blob_name)
              /\ calls' = <<Call("get_asset_content", blob_name, FALSE, found)>>

(***************************************************************************)
(* GET /health                                                             *)
(***************************************************************************)
HealthStatuses == {"healthy", "unhealthy"}

\* "Check Azure Blob Storage"
HealthBlob(blobRaises, overall) ==
    IF blobRaises
    THEN [status |-> "unhealthy", overall |-> "degraded"]
    ELSE [status |-> "healthy", overall |-> overall]

\* "Check Cosmos DB": cosmos_service is what the dependency returned
HealthCosmos(cosmos_service, cosmosRaises, cosmos_health, overall) ==
    IF cosmos_service
    THEN IF cosmosRaises
         THEN [status |-> "unhealthy", overall |-> "degraded"]
         ELSE [status |-> cosmos_health,
               overall |-> IF cosmos_health # "healthy" THEN "degraded"
                           ELSE overall]
    ELSE [status |-> "unavailable", overall |-> "degraded"]

\* "Check AI Services": ai_services is the set of clients that are set
HealthAI(importRaises, ai_services, overall) ==
    IF importRaises
    THEN [status |-> "unhealthy", overall |-> "degraded"]
    ELSE [status |-> IF ai_services # {} THEN "healthy" ELSE "unhealthy",
          overall |-> overall]

HealthBody(blobRaises, cosmos_service, cosmosRaises, cosmos_health, importRaises, ai_services) ==
    LET blob == HealthBlob(blobRaises, "healthy")
        cosmos == HealthCosmos(cosmos_service, cosmosRaises, cosmos_health,
                               blob.overall)
        ai == HealthAI(importRaises, ai_services, cosmos.overall)
    IN [services |-> [azure_blob_storage |-> blob.status,
                      cosmos_db |-> cosmos.status,
                      ai_services |-> ai.status],
        overall_status |-> ai.overall]

AIClients == {"sora", "dalle", "llm"}

HealthCheck ==
    \E ctorRaises \in BOOLEAN, blobRaises \in BOOLEAN, cosmosRaises \in BOOLEAN,
       cosmos_health \in HealthStatuses, importRaises \in BOOLEAN,
       ai_services \in SUBSET AIClients :
        LET dep == GetCosmosService(settings, ctorRaises)
        IN
        /\ req' = [endpoint |-> "health"]
        /\ UNCHANGED <<settings, blobs, records, nextId>>
        /\ IF dep.raised
           THEN /\ resp' = Response("health", dep.status, ErrorBody)
                /\ calls' = <<>>
           ELSE /\ resp' = Response("health", 200,
                               HealthBody(blobRaises, TRUE, cosmosRaises,
                                          cosmos_health, importRaises, ai_services))
                /\ calls' = <<Call("_ensure_container_exists", ImageContainer,
                                   blobRaises, ~blobRaises),
                              Call("health_check", "", cosmosRaises,
                                   IF cosmosRaises THEN "" ELSE cosmos_health),
                              Call("backend.core", "", importRaises,
                                   IF importRaises THEN {} ELSE ai_services)>>

(***************************************************************************)
(* GET /images, GET /videos, GET /                                         *)
(***************************************************************************)
\* Query(..., ge=1, le=100) on `limit`; `offset` is declared without a range
LimitMin == 1
LimitMax == 100

ListingValidates(limit, offset) == limit >= LimitMin /\ limit <= LimitMax

\* "Parse tags if provided"
ParseTags(tags) ==
    IF tags.present /\ tags.val # <<>>
    THEN Some(StripNonEmpty(Split(tags.val, ",")))
    ELSE None

\* every listing handler's `except Exception`: 500
ListingExcept(exc) == 500

RECURSIVE Reverse(_)
Reverse(seq) ==
    IF seq = <<>> THEN <<>> ELSE Append(Reverse(Tail(seq)), Head(seq))

Min(a, b) == IF a <= b THEN a ELSE b

\* query(media_type?, folder_path?, tags?, limit, offset, created_at desc):
\* the matching records, newest first, and the page [offset, offset + limit).
\* An empty tag list is outside the contract: emptyTagsMatchAll is how the
\* store happens to treat it.
QueryAssets(store, media_type, folder_path, tags, limit, offset, emptyTagsMatchAll) ==
    LET Matches(r) ==
            /\ media_type.present => r.media_type = media_type.val
            /\ folder_path.present => r.folder_path = folder_path.val
            /\ tags.present =>
                  \/ tags.val = <<>> /\ emptyTagsMatchAll
                  \/ \E i \in 1..Len(tags.val), j \in 1..Len(r.tags) :
                        tags.val[i] = r.tags[j]
        matching == SelectSeq(Reverse(store), Matches)
    IN [items |-> SubSeq(matching, offset + 1, Min(offset + limit, Len(matching))),
        total |-> Len(matching)]

\* metadata.get(key, default) on the record's optional fields
RECURSIVE DictGet(_, _, _)
DictGet(pairs, key, default) ==
    IF pairs = <<>> THEN default
    ELSE IF Head(pairs)[1] = key THEN Head(pairs)[2]
    ELSE DictGet(Tail(pairs), key, default)

\* dict.update(other)
RECURSIVE DictUpdate(_, _)
DictUpdate(dict, other) ==
    IF other = <<>> THEN dict
    ELSE DictUpdate(DictSet(dict, Head(other)[1], Head(other)[2]), Tail(other))

\* ",".join(tags)
RECURSIVE Join(_)
Join(texts) ==
    IF texts = <<>> THEN <<>>
    ELSE IF Len(texts) = 1 THEN Head(texts)
    ELSE Head(texts) \o <<",">> \o Join(Tail(texts))

EmptyStr == JStr(<<>>)

Field(record, key) == <<<<key>>, DictGet(record.fields, <<key>>, EmptyStr)>>

CommonMetadata(record) ==
    << Field(record, "prompt"), Field(record, "model"),
       Field(record, "summary"), Field(record, "description"),
       Field(record, "products"), <<<<"tags">>, JStr(Join(record.tags))>> >>

ImageSpecific(record) ==
    << Field(record, "quality"), Field(record, "background"),
       Field(record, "output_format"),
       <<<<"has_transparency">>,
         DictGet(record.fields, <<"has_transparency">>, JStr(<<"False">>))>> >>

VideoSpecific(record) ==
    << Field(record, "duration"), Field(record, "resolution"),
       Field(record, "fps") >>

GenerationId(record) == << Field(record, "generation_id") >>

\* the built-in keys of a GalleryItem's `metadata`, per endpoint
BuiltinMetadata(endpoint, record) ==
    CASE endpoint = "images" ->
            CommonMetadata(record) \o ImageSpecific(record)
            \o GenerationId(record)
      [] endpoint = "videos" ->
            CommonMetadata(record) \o GenerationId(record)
            \o VideoSpecific(record)
      [] OTHER ->
            CommonMetadata(record) \o GenerationId(record)
            \o (IF record.media_type = "image"
                THEN ImageSpecific(record) ELSE VideoSpecific(record))

\* a different merge: the built-in keys are written over the custom metadata
ItemMetadataCustomFirst(endpoint, record) ==
    DictUpdate(record.custom_metadata, BuiltinMetadata(endpoint, record))

\* the `metadata` of a GalleryItem: custom metadata goes last
ItemMetadata(endpoint, record) ==
    DictUpdate(BuiltinMetadata(endpoint, record), record.custom_metadata)

ItemMediaType(endpoint, record) ==
    CASE endpoint = "images" -> "image"
      [] endpoint = "videos" -> "video"
      [] OTHER -> record.media_type

SasExpiryHours == 24

GalleryItem(endpoint, record) ==
    [id |-> record.id,
     name |-> record.blob_name,
     media_type |-> ItemMediaType(endpoint, record),
     url |-> [blob_name |-> record.blob_name, container |-> record.container,
              expiry_hours |-> SasExpiryHours],
     container |-> record.container,
     creation_time |-> record.created_at,
     metadata |-> ItemMetadata(endpoint, record),
     folder_path |-> record.folder_path]

\* a different loop: the record whose URL generation fails is skipped
RECURSIVE ProjectPageSkipping(_, _, _, _)
ProjectPageSkipping(endpoint, page, i, failAt) ==
    IF i > Len(page)
    THEN [exc |-> NoException, items |-> <<>>, calls |-> <<>>]
    ELSE LET rest == ProjectPageSkipping(endpoint, page, i + 1, failAt)
         IN [exc |-> NoException,
             items |-> (IF i = failAt THEN <<>>
                        ELSE <<GalleryItem(endpoint, page[i])>>) \o rest.items,
             calls |-> <<Call("generate_blob_sas_url", page[i].blob_name,
                              i = failAt, i # failAt)>> \o rest.calls]

\* a different loop: each item is put in front of the items gathered so far
RECURSIVE ProjectPagePrepending(_, _, _, _)
ProjectPagePrepending(endpoint, page, i, failAt) ==
    IF i > Len(page)
    THEN [exc |-> NoException, items |-> <<>>, calls |-> <<>>]
    ELSE IF i = failAt
    THEN [exc |-> OtherException, items |-> <<>>,
          calls |-> <<Call("generate_blob_sas_url", page[i].blob_name, TRUE, FALSE)>>]
    ELSE LET rest == ProjectPagePrepending(endpoint, page, i + 1, failAt)
         IN [exc |-> rest.exc,
             items |-> rest.items \o <<GalleryItem(endpoint, page[i])>>,
             calls |-> <<Call("generate_blob_sas_url", page[i].blob_name,
                              FALSE, TRUE)>> \o rest.calls]

\* the projection loop: generate_blob_sas_url raises at item failAt (0: never),
\* and the exception leaves the loop
RECURSIVE ProjectPage(_, _, _, _)
ProjectPage(endpoint, page, i, failAt) ==
    IF i > Len(page)
    THEN [exc |-> NoException, items |-> <<>>, calls |-> <<>>]
    ELSE IF i = failAt
    THEN [exc |-> OtherException, items |-> <<>>,
          calls |-> <<Call("generate_blob_sas_url", page[i].blob_name, TRUE, FALSE)>>]
    ELSE LET rest == ProjectPage(endpoint, page, i + 1, failAt)
         IN [exc |-> rest.exc,
             items |-> <<GalleryItem(endpoint, page[i])>> \o rest.items,
             calls |-> <<Call("generate_blob_sas_url", page[i].blob_name,
                              FALSE, TRUE)>> \o rest.calls]

\* the response of a listing handler whose query returned `result`
ListingOutcome(endpoint, result, limit, offset, failAt) ==
    LET projected == ProjectPage(endpoint, result.items, 1, failAt)
    IN [calls |-> projected.calls,
        resp |-> IF projected.exc.raised
                 THEN Response(endpoint, ListingExcept(projected.exc), ErrorBody)
                 ELSE Response(endpoint, 200,
                          [success |-> TRUE, total |-> result.total,
                           limit |-> limit, offset |-> offset,
                           items |-> projected.items])]

\* the media type the handler queries for
ListingMediaType(endpoint, media_type) ==
    CASE endpoint = "images" -> Some("image")
      [] endpoint = "videos" -> Some("video")
      [] OTHER -> media_type

ListingOf(endpoint, limits, offsets, tagsForms, folders, mediaTypes) ==
    \E limit \in limits, offset \in offsets, tags \in tagsForms,
       folder_path \in folders, media_type \in mediaTypes,
       ctorRaises \in BOOLEAN :
        LET dep == GetCosmosService(settings, ctorRaises)
            tag_list == ParseTags(tags)
            queried == ListingMediaType(endpoint, media_type)
            args == [media_type |-> queried, folder_path |-> folder_path,
                     tags |-> tag_list, limit |-> limit, offset |-> offset]
        IN
        /\ req' = [endpoint |-> endpoint, limit |-> limit, offset |-> offset,
                   tags |-> tags, folder_path |-> folder_path,
                   media_type |-> media_type]
        /\ UNCHANGED <<settings, blobs, records, nextId>>
        /\ IF dep.raised
           THEN /\ resp' = Response(endpoint, dep.status, ErrorBody)
                /\ calls' = <<>>
           ELSE IF ~ListingValidates(limit, offset)
           THEN /\ resp' = Response(endpoint, 422, ErrorBody)
                /\ calls' = <<>>
           ELSE \/ /\ resp' = Response(endpoint, ListingExcept(OtherException),
                                       ErrorBody)
                   /\ calls' = <<Call("query_assets", args, TRUE, FALSE)>>
                \/ /\ offset >= 0
                   /\ \E emptyTagsMatchAll \in BOOLEAN :
                       LET result == QueryAssets(records, queried, folder_path,
                                         tag_list, limit, offset, emptyTagsMatchAll)
                       IN \E failAt \in 0..Len(result.items) :
                           LET out == ListingOutcome(endpoint, result, limit,
                                                     offset, failAt)
                           IN /\ resp' = out.resp
                              /\ calls' = <<Call("query_assets", args, FALSE, TRUE)>>
                                          \o out.calls

(***************************************************************************)
(* The requests of each specification.                                     *)
(***************************************************************************)
PngName == <<"a", ".", "p", "n", "g">>
Mp4Name == <<"a", ".", "m", "p", "4">>

\* uploads of the asset life cycle: one valid name per media type
UploadAsset == UploadAssetOf({PngName}, {None}, {Some(<<"f">>)}, MaxUploads)

DeleteAsset == DeleteAssetOf({None, Some("other")})

\* uploads of any file name
UploadAnyFile == UploadAssetOf(Filenames, {None}, {None}, MaxValidatedUploads)

\* uploads with any metadata field
UploadAnyMetadata ==
    UploadAssetOf({PngName}, MetadataForms, {None}, MaxValidatedUploads)

\* uploads of both media types, for the listings
UploadMedia == UploadAssetOf({PngName, Mp4Name}, {None}, {Some(<<"f">>)}, MaxUploads)

\* the listing query parameters
DefaultLimit == 50
DefaultOffset == 0

Limits == {0, 1, LimitMax, LimitMax + 1}
Offsets == {-1, 0, 1}

TagsForms ==
    { None,
      Some(<<>>),
      Some(<<"a">>),
      Some(<<" ", "a", " ", ",", "b">>),
      Some(<<"a", ",", ",", " ">>),
      Some(<<" ", ",", " ">>),
      Some(<<",">>) }

FolderFilters == { None, Some(<<"f">>), Some(<<"g">>) }

MediaFilters == { None, Some("image"), Some("video") }

\* a listing request varies its page, or its tags, or its other filters
ListingAny(endpoint, mediaTypes) ==
    \/ ListingOf(endpoint, Limits, Offsets, {None}, {None}, {None})
    \/ ListingOf(endpoint, {DefaultLimit}, {DefaultOffset}, TagsForms, {None}, {None})
    \/ ListingOf(endpoint, {DefaultLimit}, {DefaultOffset}, {None}, FolderFilters,
                 mediaTypes)

GetGalleryImages == ListingAny("images", {None})

GetGalleryVideos == ListingAny("videos", {None})

GetGalleryItems == ListingAny("items", MediaFilters)

Init ==
    /\ settings \in [endpoint : BOOLEAN, key : BOOLEAN, managed : BOOLEAN]
    /\ blobs = <<>>
    /\ records = <<>>
    /\ nextId = 0
    /\ req = [endpoint |-> "none"]
    /\ resp = Response("none", 0, ErrorBody)
    /\ calls = <<>>

Next ==
    \/ UploadAsset
    \/ DeleteAsset
    \/ GetAssetContent

Spec == Init /\ [][Next]_vars

NextUpload ==
    \/ UploadAnyFile
    \/ UploadAnyMetadata

SpecUpload == Init /\ [][NextUpload]_vars

\* the listings run against a configured or an unconfigured metadata store
ListingSettings ==
    { [endpoint |-> TRUE, key |-> TRUE, managed |-> FALSE],
      [endpoint |-> FALSE, key |-> FALSE, managed |-> FALSE] }

InitListing ==
    /\ settings \in ListingSettings
    /\ blobs = <<>>
    /\ records = <<>>
    /\ nextId = 0
    /\ req = [endpoint |-> "none"]
    /\ resp = Response("none", 0, ErrorBody)
    /\ calls = <<>>

NextListing ==
    \/ UploadMedia
    \/ GetGalleryImages
    \/ GetGalleryVideos
    \/ GetGalleryItems

SpecListing == InitListing /\ [][NextListing]_vars

NextHealth ==
    \/ HealthCheck

SpecHealth == Init /\ [][NextHealth]_vars

\* records as the generation pipelines leave them in the metadata store:
\* built-in fields, tags, and custom metadata that may reuse a built-in key
StoredFields ==
    { <<>>,
      << <<<<"prompt">>, JStr(<<"k">>)>>, <<<<"model">>, JStr(<<"k">>)>> >>,
      << <<<<"duration">>, JStr(<<"k">>)>> >> }

StoredTags == { <<>>, << <<"a">>, <<"b">> >> }

StoredCustom ==
    { <<>>,
      << <<<<"prompt">>, JStr(<<"v">>)>> >>,
      << <<<<"k">>, JStr(<<"v">>)>> >>,
      << <<<<"tags">>, JStr(<<"v">>)>>, <<<<"quality">>, JStr(<<"v">>)>> >>,
      << <<<<"duration">>, JStr(<<"v">>)>> >> }

StoredRecord(n, media_type, fields, tags, custom) ==
    LET result == BlobUploadResult(n,
                      IF media_type = "image" THEN PngName ELSE Mp4Name,
                      media_type, Some(<<"f">>))
    IN [RecordOf(result, media_type, Some(JObj(custom)), n)
            EXCEPT !.fields = fields, !.tags = tags]

StoredBlob(record) ==
    [container |-> record.container, blob_name |-> record.blob_name,
     metadata |-> Some(JObj(record.custom_metadata))]

\* the stores hold one or two assets when the listings start
InitProjection ==
    /\ settings \in ListingSettings
    /\ \E media_type \in MediaTypes, fields \in StoredFields,
          tags \in StoredTags, custom \in StoredCustom, two \in BOOLEAN :
          LET older == StoredRecord(0, "image", <<>>, <<>>, <<>>)
              newer == StoredRecord(IF two THEN 1 ELSE 0, media_type, fields,
                                    tags, custom)
          IN records = IF two THEN <<older, newer>> ELSE <<newer>>
    /\ blobs = [i \in 1..Len(records) |-> StoredBlob(records[i])]
    /\ nextId = Len(records)
    /\ req = [endpoint |-> "none"]
    /\ resp = Response("none", 0, ErrorBody)
    /\ calls = <<>>

\* listings of the stored assets: the first page, or a page of one item
ListingPage(endpoint, mediaTypes) ==
    ListingOf(endpoint, {1, DefaultLimit}, {DefaultOffset, 1}, {None}, {None},
              mediaTypes)

ListImages == ListingPage("images", {None})

ListVideos == ListingPage("videos", {None})

ListItems == ListingPage("items", MediaFilters)

NextProjection ==
    \/ ListImages
    \/ ListVideos
    \/ ListItems

SpecProjection == InitProjection /\ [][NextProjection]_vars

(***************************************************************************)
(* Properties.                                                             *)
(***************************************************************************)
CallMade(op) == \E i \in 1..Len(calls) : calls[i].op = op

CallRaised(op) == \E i \in 1..Len(calls) : calls[i].op = op /\ calls[i].raised

CallReturned(op, ret) ==
    \E i \in 1..Len(calls) :
        calls[i].op = op /\ ~calls[i].raised /\ calls[i].ret = ret

\* the request handled last is an upload whose file name fails the allow-list
\* of its media type, or whose non-empty metadata field is not valid JSON
UploadFailsValidation ==
    /\ req.endpoint = "upload"
    /\ \/ ~HasValidType(req.media_type, req.filename)
       \/ /\ req.metadata.present
          /\ req.metadata.val # <<>>
          /\ ~JsonLoads(req.metadata.val).ok

\* C1: an upload that fails validation (file extension outside the allow-list
\* of its media type, or a non-empty metadata field that is not valid JSON) is
\* answered with status 400, whenever the metadata-store dependency resolved.
C1_UploadValidationAnswers400 ==
    (UploadFailsValidation /\ resp.status # 503) => resp.status = 400

\* the request handled last is an upload with a disallowed file extension
UploadHasBadExtension ==
    /\ req.endpoint = "upload"
    /\ ~HasValidType(req.media_type, req.filename)

\* C2: a step that handles an upload with a disallowed extension calls neither
\* the blob store's upload nor the metadata store's create, and leaves both
\* stores as they were.
C2_BadExtensionMutatesNothing ==
    [][ UploadHasBadExtension' =>
            /\ blobs' = blobs
            /\ records' = records
            /\ ~CallMade("upload_asset")'
            /\ ~CallMade("create_asset_metadata")' ]_vars

\* C2 witness: an upload with a disallowed extension was rejected by the
\* handler while the stores held an earlier upload.
C2_Witness ==
    /\ UploadHasBadExtension
    /\ resp.status = 500
    /\ blobs # <<>>
    /\ records # <<>>

\* C3: a metadata-store call that raises does not change the answer: an upload
\* whose blob upload succeeded reports success although create_asset_metadata
\* raised, and a delete whose delete_asset_metadata raised reports success if
\* the blob store removed the blob and 404 if it reported it absent.
C3_MetadataFailureIsNotFatal ==
    /\ (req.endpoint = "upload" /\ CallRaised("create_asset_metadata")) =>
            /\ resp.status = 200
            /\ resp.body.success
            /\ resp.body.result.original_filename = req.filename
            /\ resp.body.result.container = ContainerOf(req.media_type)
            /\ BlobExists(blobs, resp.body.result.blob_name,
                          resp.body.result.container)
    /\ (req.endpoint = "delete" /\ CallRaised("delete_asset_metadata")) =>
            /\ CallReturned("delete_asset", TRUE) =>
                    /\ resp.status = 200
                    /\ resp.body.success
                    /\ resp.body.blob_name = req.blob_name
            /\ CallReturned("delete_asset", FALSE) => resp.status = 404

\* C3 witness: create_asset_metadata raised during an upload that reported
\* success, leaving a blob without a record.
C3_Witness ==
    /\ req.endpoint = "upload"
    /\ CallRaised("create_asset_metadata")
    /\ resp.status = 200
    /\ Len(blobs) > Len(records)

\* the metadata store is configured: an endpoint, and a key or managed identity
Configured == settings.endpoint /\ (settings.key \/ settings.managed)

\* C4: with the metadata store not configured, an upload or a delete is not
\* failed on account of the metadata store (no 503): it is served from the blob
\* store alone.
C4_UnconfiguredDegradesToBlobOnly ==
    (~Configured /\ req.endpoint \in {"upload", "delete"}) => resp.status # 503

\* C5: GET /asset answers 404 whenever the blob store reports no content for
\* the blob.
C5_AbsentAssetAnswers404 ==
    (req.endpoint = "asset" /\ CallReturned("get_asset_content", FALSE)) =>
        resp.status = 404

\* C6: DELETE /delete answers 404 exactly when the blob store's delete returned
\* false and success when it returned true; and a delete that repeats a delete
\* which reported success, and reaches the blob store, answers 404.
C6_DeleteAnswers404IffAbsent ==
    /\ [](req.endpoint = "delete" =>
            /\ resp.status = 404 <=> CallReturned("delete_asset", FALSE)
            /\ CallReturned("delete_asset", TRUE) =>
                    resp.status = 200 /\ resp.body.success)
    /\ [][ ( /\ req.endpoint = "delete"
             /\ resp.status = 200
             /\ req' = req
             /\ (\E i \in 1..Len(calls') :
                    calls'[i].op = "delete_asset" /\ ~calls'[i].raised) )
           => resp'.status = 404 ]_vars

\* C6 witness: a delete of the first uploaded blob, in the container of its
\* media type, is answered 404: the blob was there and an earlier delete
\* removed it.
C6_Witness ==
    /\ req.endpoint = "delete"
    /\ req.blob_name = <<"f", "/", "1", ".", "p", "n", "g">>
    /\ req.media_type = Some("image")
    /\ req.container = None
    /\ resp.status = 404
    /\ CallReturned("delete_asset", FALSE)

\* C7: a health report says "healthy" only when the blob store, the metadata
\* store and the AI services are all healthy, and "degraded" otherwise.
C7_HealthyOnlyIfAllHealthy ==
    (req.endpoint = "health" /\ resp.status = 200) =>
        (resp.body.overall_status = "healthy" <=>
            /\ resp.body.services.azure_blob_storage = "healthy"
            /\ resp.body.services.cosmos_db = "healthy"
            /\ resp.body.services.ai_services = "healthy")

ListingEndpoints == {"images", "videos", "items"}

\* C8 (as claimed): a listing in which the URL generation of one record fails
\* still succeeds, with the failing record skipped.
C8_UrlFailureSkipsRecord ==
    (req.endpoint \in ListingEndpoints /\ CallRaised("generate_blob_sas_url")) =>
        resp.status = 200

\* C8 (amended): a listing in which the URL generation of one record fails is
\* failed as a whole: the answer is 500 and carries no items, also when the
\* URLs of earlier records of the page were generated.
C8_UrlFailureFailsPage ==
    (req.endpoint \in ListingEndpoints /\ CallRaised("generate_blob_sas_url")) =>
        resp.status = 500 /\ resp.body = ErrorBody

\* C8 witness: the URL of the first record of a page was generated and the
\* URL generation of the second one failed.
C8_Witness ==
    /\ req.endpoint \in ListingEndpoints
    /\ Len(calls) = 3
    /\ calls[2].op = "generate_blob_sas_url" /\ ~calls[2].raised
    /\ calls[3].op = "generate_blob_sas_url" /\ calls[3].raised
    /\ resp.status = 500

\* C9: every query the listing handlers send to the metadata store carries a
\* limit in [1, 100] and an offset >= 0.
C9_QueryPageInRange ==
    \A i \in 1..Len(calls) :
        calls[i].op = "query_assets" =>
            /\ calls[i].args.limit \in LimitMin..LimitMax
            /\ calls[i].args.offset >= 0

\* a tag filter is absent, or a non-empty list of trimmed non-empty strings
WellFormedTags(tags) ==
    tags.present =>
        /\ tags.val # <<>>
        /\ \A j \in 1..Len(tags.val) :
              tags.val[j] # <<>> /\ Strip(tags.val[j]) = tags.val[j]

\* C10: the tag filter of every query the listing handlers send to the
\* metadata store is absent or a non-empty list of trimmed non-empty strings.
C10_QueryTagsWellFormed ==
    \A i \in 1..Len(calls) :
        calls[i].op = "query_assets" => WellFormedTags(calls[i].args.tags)

\* the step is a listing that succeeds, asked with the default page and no tag
\* filter for the media type and the folder of the upload answered before it
ListsTheUpload ==
    /\ req.endpoint = "upload"
    /\ req'.endpoint \in ListingEndpoints
    /\ resp'.status = 200
    /\ req'.limit = DefaultLimit /\ req'.offset = DefaultOffset
    /\ ~req'.tags.present
    /\ req'.folder_path = req.folder_path
    /\ \/ req'.endpoint = "images" /\ req.media_type = "image"
       \/ req'.endpoint = "videos" /\ req.media_type = "video"
       \/ /\ req'.endpoint = "items"
          /\ req'.media_type.present
          /\ req'.media_type.val = req.media_type

\* C11: once an upload has reported success, the listing that follows it for
\* its media type and folder returns an item for the uploaded blob, also when
\* the creation of the metadata record failed during the upload.
C11_UploadedAssetIsListed ==
    [][(resp.endpoint = "upload" /\ resp.status = 200 /\ ListsTheUpload) =>
          \E i \in 1..Len(resp'.body.items) :
              resp'.body.items[i].name = resp.body.result.blob_name]_vars

\* what a record holds for a built-in key of the projection
RecordValue(record, key) ==
    IF key = <<"tags">> THEN JStr(Join(record.tags))
    ELSE IF key = <<"has_transparency">>
    THEN DictGet(record.fields, key, JStr(<<"False">>))
    ELSE DictGet(record.fields, key, EmptyStr)

StorePage ==
    LET args == calls[1].args
    IN QueryAssets(records, args.media_type, args.folder_path, args.tags,
                   args.limit, args.offset, TRUE)

\* C13: a successful listing answers with one item per record of the page the
\* metadata store returned, in the store's order (item i has the id and the
\* blob name of record i); total is the store's total, limit and offset are
\* those of the request.
C13_ProjectionPreservesPage ==
    (req.endpoint \in ListingEndpoints /\ resp.status = 200) =>
        /\ Len(resp.body.items) = Len(StorePage.items)
        /\ \A i \in 1..Len(resp.body.items) :
              /\ resp.body.items[i].id = StorePage.items[i].id
              /\ resp.body.items[i].name = StorePage.items[i].blob_name
        /\ resp.body.total = StorePage.total
        /\ resp.body.limit = req.limit
        /\ resp.body.offset = req.offset

\* C13 witness: a successful listing of two records, the newer one first
C13_Witness ==
    /\ req.endpoint \in ListingEndpoints /\ resp.status = 200
    /\ Len(records) = 2
    /\ resp.body.total = 2
    /\ Len(resp.body.items) = 2
    /\ resp.body.items[1].id = records[2].id
    /\ resp.body.items[2].id = records[1].id

\* C14: every value of the metadata mapping an upload hands to the blob store
\* (the mapping also stored as the record's custom metadata) is a string:
\* objects and arrays are serialized, nulls are removed, and no number or
\* boolean remains.
C14_StoredMetadataIsStrings ==
    \A i \in 1..Len(calls) :
        (/\ calls[i].op \in {"upload_asset", "create_asset_metadata"}
         /\ calls[i].args.present
         /\ calls[i].args.val.kind = "obj") =>
            \A j \in 1..Len(calls[i].args.val.val) :
                calls[i].args.val.val[j][2].kind = "str"

\* C15: a delete that is answered 404 or 500 leaves the metadata store as it
\* was: no record is removed by a delete that does not report success.
C15_FailedDeleteKeepsRecords ==
    [][(req'.endpoint = "delete" /\ resp'.status \in {404, 500}) =>
          records' = records]_vars

\* C16: every record of the metadata store refers to a blob the blob store
\* holds, in every state that uploads and deletes can reach.
C16_NoOrphanRecords ==
    \A i \in 1..Len(records) :
        BlobExists(blobs, records[i].blob_name, records[i].container)

====
